---- MODULE Spec2Model ----
(***************************************************************************)
(* A model of examples/skills/code-runner/runner.py: the snippet locator   *)
(* (find_snippet), the sandboxed executor (run_snippet) and the program    *)
(* entry (__main__), run as a sequence of invocations over one workspace.  *)
(*                                                                         *)
(* File names are sequences of one-character strings.  Captured output is  *)
(* text (subprocess.run(..., text=True)): a sequence of runs <<c, n>>, the *)
(* code point c repeated n >= 1 times, adjacent runs having different code *)
(* points, so that equal texts have equal representations.                 *)
(***************************************************************************)
EXTENDS Integers, Sequences, FiniteSets, TLC

VARIABLES
    entries,      \* the files placed in /workspace: a set of [name, kind]
    outDir,       \* /workspace/output: "absent" or "dir"
    artifact,     \* /workspace/output/result.txt: <<>> when absent, else <<content>>
    TIMEOUT,      \* runner.py:9, read from the environment at process start
    MAX_OUTPUT_KB,\* runner.py:10, read from the environment at process start
    pc,           \* the position of the running invocation
    snippet,      \* (path, ext) of find_snippet, (None, None) when nothing was found
    child,        \* the child process: <<>> before launch, else <<[cmd, cwd, stdin]>>
    childRead,    \* whether the child has read from what its stdin is connected to
    result,       \* subprocess.run's value: <<>>, else <<[returncode, stdout, stderr]>>
    stdout,       \* run_snippet's local stdout, assigned at line 48
    stderr,       \* run_snippet's local stderr, assigned at line 49
    sys_stdout,   \* what the invocation printed on the normal channel
    sys_stderr,   \* what the invocation printed on the error channel
    exitCode,     \* the exit status of the runner process: <<>> while it runs, else <<K>>
    outcome,      \* how the invocation ended, "none" while it runs
    fsAtStart     \* history: [outDir, artifact] when the invocation started

vars == <<entries, outDir, artifact, TIMEOUT, MAX_OUTPUT_KB, pc, snippet, child,
          childRead, result, stdout, stderr, sys_stdout, sys_stderr, exitCode,
          outcome, fsAtStart>>

\* Python's None, and every "not there yet": the empty sequence
None == <<>>

(***************************************************************************)
(* Bounds of the model.                                                    *)
(***************************************************************************)
MaxEntries == 2      \* files placed in the workspace
MaxTimeout == 2      \* TIMEOUT ranges over 1..MaxTimeout
MaxOutputKB == 1     \* MAX_OUTPUT_KB ranges over 1..MaxOutputKB

(***************************************************************************)
(* Program constants.                                                      *)
(***************************************************************************)
WORKSPACE == "/workspace"
OUTPUT_DIR == "/workspace/output"
KiB == 1024
TIMEOUT_EXIT == 124
NO_SNIPPET_EXIT == 1

PY == <<".", "p", "y">>
SH == <<".", "s", "h">>
RUNNERS == (PY :> <<"python3">>) @@ (SH :> <<"bash">>)
\* RUNNERS.keys(), in insertion order
RUNNERS_keys == <<PY, SH>>

(***************************************************************************)
(* Strings: code points and the order sorted() puts names in.              *)
(***************************************************************************)
CharCode(c) ==
    CASE c = "." -> 46 [] c = "P" -> 80 [] c = "Y" -> 89 [] c = "a" -> 97
      [] c = "b" -> 98 [] c = "h" -> 104 [] c = "o" -> 111 [] c = "p" -> 112
      [] c = "s" -> 115 [] c = "t" -> 116 [] c = "u" -> 117 [] c = "y" -> 121

Min(a, b) == IF a <= b THEN a ELSE b

\* a < b for Python str: the first differing code point decides, a proper
\* prefix is smaller.
StrLess(a, b) ==
    LET n == Min(Len(a), Len(b))
        diff == {i \in 1..n : a[i] # b[i]}
    IN IF diff = {}
         THEN Len(a) < Len(b)
         ELSE LET i == CHOOSE k \in diff : \A j \in diff : k <= j
              IN CharCode(a[i]) < CharCode(b[i])

RECURSIVE Insert(_, _)
Insert(x, s) ==
    IF s = <<>> THEN <<x>>
    ELSE IF StrLess(x, Head(s)) THEN <<x>> \o s
    ELSE <<Head(s)>> \o Insert(x, Tail(s))

\* sorted(list)
RECURSIVE sorted(_)
sorted(s) == IF s = <<>> THEN <<>> ELSE Insert(Head(s), sorted(Tail(s)))

\* str.rfind("."), 1-based, 0 when there is no dot
rfind_dot(name) ==
    LET dots == {i \in 1..Len(name) : name[i] = "."}
    IN IF dots = {} THEN 0 ELSE CHOOSE i \in dots : \A j \in dots : j <= i

\* os.path.splitext(entry)[1]: the text from the last dot on, unless only
\* dots come before it (leading dots belong to the root).
RECURSIVE splitext_scan(_, _, _)
splitext_scan(name, filenameIndex, dotIndex) ==
    IF filenameIndex >= dotIndex THEN <<>>
    ELSE IF name[filenameIndex] # "." THEN SubSeq(name, dotIndex, Len(name))
    ELSE splitext_scan(name, filenameIndex + 1, dotIndex)

splitext_ext(name) ==
    LET dotIndex == rfind_dot(name)
    IN IF dotIndex > 0 THEN splitext_scan(name, 1, dotIndex) ELSE <<>>

(***************************************************************************)
(* The workspace directory.                                                *)
(***************************************************************************)
OutputName == <<"o", "u", "t", "p", "u", "t">>

\* The entries of /workspace: the files placed there and, once created, the
\* output subdirectory.
Listing ==
    entries \cup (IF outDir = "dir" THEN {[name |-> OutputName, kind |-> "dir"]} ELSE {})

ListingNames == {e.name : e \in Listing}

\* os.path.isfile(os.path.join(WORKSPACE, entry))
isfile(entry) == \E e \in Listing : e.name = entry /\ e.kind = "file"

\* os.path.join(WORKSPACE, entry)
join(dir, entry) == <<dir, entry>>

\* The orders os.listdir may return the names in: every arrangement.
ListdirOrders ==
    {s \in [1..Cardinality(ListingNames) -> ListingNames] :
        \A i, j \in DOMAIN s : i # j => s[i] # s[j]}

\* The loop of find_snippet over an already ordered list of names.
RECURSIVE find_first(_)
find_first(names) ==
    IF names = <<>> THEN <<None, None>>
    ELSE LET entry == Head(names)
             ext == splitext_ext(entry)
         IN IF ~isfile(entry) THEN find_first(Tail(names))
            ELSE IF ext \in DOMAIN RUNNERS THEN <<join(WORKSPACE, entry), ext>>
            ELSE find_first(Tail(names))

\* find_snippet without line 22's sorted(): the names in os.listdir's order
find_snippet_unsorted(listdir) == find_first(listdir)

find_snippet(listdir) == find_first(sorted(listdir))

(***************************************************************************)
(* Text and its conversions.                                               *)
(***************************************************************************)
\* len(text)
RECURSIVE TextLen(_)
TextLen(t) == IF t = <<>> THEN 0 ELSE Head(t)[2] + TextLen(Tail(t))

\* text[:k] for k >= 0: the first k code points
RECURSIVE Slice(_, _)
Slice(t, k) ==
    IF t = <<>> \/ k <= 0 THEN <<>>
    ELSE IF Head(t)[2] >= k THEN << <<Head(t)[1], k>> >>
    ELSE <<Head(t)>> \o Slice(Tail(t), k - Head(t)[2])

\* The bytes one code point takes when the text is written out (UTF-8).
Utf8Width(c) == IF c < 128 THEN 1 ELSE IF c < 2048 THEN 2 ELSE IF c < 65536 THEN 3 ELSE 4

\* len(text.encode())
RECURSIVE ByteLen(_)
ByteLen(t) ==
    IF t = <<>> THEN 0 ELSE Head(t)[2] * Utf8Width(Head(t)[1]) + ByteLen(Tail(t))

DigitChar(d) ==
    CASE d = 0 -> "0" [] d = 1 -> "1" [] d = 2 -> "2" [] d = 3 -> "3" [] d = 4 -> "4"
      [] d = 5 -> "5" [] d = 6 -> "6" [] d = 7 -> "7" [] d = 8 -> "8" [] d = 9 -> "9"

RECURSIVE Digits(_)
Digits(n) ==
    IF n < 10 THEN <<DigitChar(n)>> ELSE Digits(n \div 10) \o <<DigitChar(n % 10)>>

\* f"{n}" for an int
str(n) == IF n < 0 THEN <<"-">> \o Digits(0 - n) ELSE Digits(n)

\* The status the operating system reports for sys.exit(code): its low 8 bits.
sys_exit(code) == code % 256

(***************************************************************************)
(* The child process.                                                      *)
(***************************************************************************)
\* What a child may return: exit statuses, and -N for a child killed by
\* signal N (subprocess's returncode).
ReturnCodes == {0, 1, 124, -9}

\* What a child may write: nothing, "aa", 1024 times U+00E9 (two bytes each),
\* and k * 1024 times "a" followed by one "b", one code point over the cap k.
StdoutTexts ==
    {<<>>, << <<97, 2>> >>, << <<233, KiB>> >>}
    \cup {<< <<97, KiB * k>>, <<98, 1>> >> : k \in 1..MaxOutputKB}

StderrTexts ==
    {<<>>} \cup {<< <<98, KiB * k>>, <<97, 1>> >> : k \in 1..MaxOutputKB}

\* subprocess.run is given no stdin argument: the child keeps the runner's.
subprocess_stdin == "inherit"

(***************************************************************************)
(* The result artifact.                                                    *)
(***************************************************************************)
out_file == join(OUTPUT_DIR, "result.txt")

\* open(out_file, "a"): the writes follow what the file holds
open_a(content) == content

\* open(out_file, "w"): the content the writes start from
open_w(content) == <<>>

\* The writes of lines 63-66, in order.
Writes(returncode, out, err) ==
    << <<"exit_code: ", str(returncode)>>, <<"--- stdout ---", out>> >>
    \o (IF err # <<>> THEN << <<"--- stderr ---", err>> >> ELSE <<>>)

Content == IF artifact = <<>> THEN <<>> ELSE artifact[1]

(***************************************************************************)
(* The invocation.                                                         *)
(***************************************************************************)
\* The subsets of S of at most k elements.
RECURSIVE SubsetsUpTo(_, _)
SubsetsUpTo(S, k) ==
    IF k = 0 THEN {{}}
    ELSE LET smaller == SubsetsUpTo(S, k - 1)
         IN smaller \cup {w \cup {e} : w \in smaller, e \in S}

\* The directories of at most MaxEntries entries from pool: a name is there once.
Workspaces(pool) ==
    {w \in SubsetsUpTo(pool, MaxEntries) : \A e, f \in w : e.name = f.name => e = f}

File(n) == [name |-> n, kind |-> "file"]
Dir(n) == [name |-> n, kind |-> "dir"]

MainPool ==
    {File(<<"a", ".", "p", "y">>), File(<<"b", ".", "s", "h">>), File(<<".", "p", "y">>)}

\* A runner process at its start, lines 9-10 read.
ProcessStart ==
    /\ pc = "start"
    /\ snippet = <<None, None>>
    /\ child = <<>>
    /\ childRead = FALSE
    /\ result = <<>>
    /\ stdout = <<>>
    /\ stderr = <<>>
    /\ sys_stdout = <<>>
    /\ sys_stderr = <<>>
    /\ exitCode = <<>>
    /\ outcome = "none"

Init ==
    /\ entries \in Workspaces(MainPool)
    /\ outDir = "absent"
    /\ artifact = <<>>
    /\ fsAtStart = [outDir |-> "absent", artifact |-> <<>>]
    /\ TIMEOUT \in 1..MaxTimeout
    /\ MAX_OUTPUT_KB \in 1..MaxOutputKB
    /\ ProcessStart

\* The process ends with status `code`.
Exit(code, how) ==
    /\ exitCode' = <<sys_exit(code)>>
    /\ outcome' = how
    /\ pc' = "exited"

\* An exception nothing catches: the traceback goes to the error channel and
\* the process ends with status 1.
Uncaught(where) ==
    /\ sys_stderr' = Append(sys_stderr, <<"Traceback", where>>)
    /\ exitCode' = <<1>>
    /\ outcome' = "PersistenceFailure"
    /\ pc' = "exited"

\* Nothing runnable, and the result of an earlier run is cleared away.
MainNotFound_clears ==
    /\ pc = "start"
    /\ \E listdir \in ListdirOrders :
         /\ find_snippet(listdir)[1] = None
         /\ snippet' = find_snippet(listdir)
    /\ sys_stderr' = Append(sys_stderr, <<"No runnable code found in /workspace", <<>>>>)
    /\ sys_stdout' = Append(sys_stdout, <<"Supported extensions:", RUNNERS_keys>>)
    /\ artifact' = <<>>
    /\ Exit(NO_SNIPPET_EXIT, "NoCandidateFile")
    /\ UNCHANGED <<entries, outDir, TIMEOUT, MAX_OUTPUT_KB, child, childRead,
                   result, stdout, stderr, fsAtStart>>

\* __main__, lines 74-78: nothing runnable
MainNotFound ==
    /\ pc = "start"
    /\ \E listdir \in ListdirOrders :
         /\ find_snippet(listdir)[1] = None
         /\ snippet' = find_snippet(listdir)
    /\ sys_stderr' = Append(sys_stderr, <<"No runnable code found in /workspace", <<>>>>)
    /\ sys_stdout' = Append(sys_stdout, <<"Supported extensions:", RUNNERS_keys>>)
    /\ Exit(NO_SNIPPET_EXIT, "NoCandidateFile")
    /\ UNCHANGED <<entries, outDir, artifact, TIMEOUT, MAX_OUTPUT_KB, child, childRead,
                   result, stdout, stderr, fsAtStart>>

\* __main__, lines 74-75 and 80: a snippet was found
MainFound ==
    /\ pc = "start"
    /\ \E listdir \in ListdirOrders :
         /\ find_snippet(listdir)[1] # None
         /\ snippet' = find_snippet(listdir)
    /\ pc' = "run_snippet"
    /\ UNCHANGED <<entries, outDir, artifact, TIMEOUT, MAX_OUTPUT_KB, child, childRead,
                   result, stdout, stderr, sys_stdout, sys_stderr, exitCode, outcome,
                   fsAtStart>>

\* run_snippet, lines 33-43: the command is built, announced and launched
Launch ==
    /\ pc = "run_snippet"
    /\ LET cmd == RUNNERS[snippet[2]] \o <<snippet[1]>>
       IN /\ sys_stdout' = Append(sys_stdout, <<"Running:", <<cmd, str(TIMEOUT)>>>>)
          /\ child' = <<[cmd |-> cmd, cwd |-> WORKSPACE, stdin |-> subprocess_stdin,
                         stdout |-> "pipe", stderr |-> "pipe"]>>
    /\ pc' = "running"
    /\ UNCHANGED <<entries, outDir, artifact, TIMEOUT, MAX_OUTPUT_KB, snippet, childRead,
                   result, stdout, stderr, sys_stderr, exitCode, outcome, fsAtStart>>

\* The child reads its standard input, when that is the runner's own.
ChildReadsStdin ==
    /\ pc = "running"
    /\ child[1].stdin = "inherit"
    /\ ~childRead
    /\ childRead' = TRUE
    /\ UNCHANGED <<entries, outDir, artifact, TIMEOUT, MAX_OUTPUT_KB, pc, snippet, child,
                   result, stdout, stderr, sys_stdout, sys_stderr, exitCode, outcome,
                   fsAtStart>>

\* subprocess.run returns, lines 37-43: the child ended within the timeout
ChildExits ==
    /\ pc = "running"
    /\ \E rc \in ReturnCodes, out \in StdoutTexts, err \in StderrTexts :
         result' = <<[returncode |-> rc, stdout |-> out, stderr |-> err]>>
    /\ pc' = "completed"
    /\ UNCHANGED <<entries, outDir, artifact, TIMEOUT, MAX_OUTPUT_KB, snippet, child,
                   childRead, stdout, stderr, sys_stdout, sys_stderr, exitCode, outcome,
                   fsAtStart>>

\* The timeout handler also records the timeout in the artifact.
TimeoutExpired_persists ==
    /\ pc = "running"
    /\ sys_stderr' = Append(sys_stderr, <<"Error: execution timed out after", str(TIMEOUT)>>)
    /\ outDir' = "dir"
    /\ artifact' = <<Writes(TIMEOUT_EXIT, <<>>, <<>>)>>
    /\ Exit(TIMEOUT_EXIT, "TimedOut")
    /\ UNCHANGED <<entries, TIMEOUT, MAX_OUTPUT_KB, snippet, child,
                   childRead, result, stdout, stderr, sys_stdout, fsAtStart>>

\* The timeout handler ends the process with the general failure status.
TimeoutExpired_exit1 ==
    /\ pc = "running"
    /\ sys_stderr' = Append(sys_stderr, <<"Error: execution timed out after", str(TIMEOUT)>>)
    /\ Exit(1, "TimedOut")
    /\ UNCHANGED <<entries, outDir, artifact, TIMEOUT, MAX_OUTPUT_KB, snippet, child,
                   childRead, result, stdout, stderr, sys_stdout, fsAtStart>>

\* lines 44-46: the child did not end within TIMEOUT seconds
TimeoutExpired ==
    /\ pc = "running"
    /\ sys_stderr' = Append(sys_stderr, <<"Error: execution timed out after", str(TIMEOUT)>>)
    /\ Exit(TIMEOUT_EXIT, "TimedOut")
    /\ UNCHANGED <<entries, outDir, artifact, TIMEOUT, MAX_OUTPUT_KB, snippet, child,
                   childRead, result, stdout, stderr, sys_stdout, fsAtStart>>

\* lines 48-49
Truncate ==
    /\ pc = "completed"
    /\ stdout' = Slice(result[1].stdout, MAX_OUTPUT_KB * KiB)
    /\ stderr' = Slice(result[1].stderr, MAX_OUTPUT_KB * KiB)
    /\ pc' = "truncated"
    /\ UNCHANGED <<entries, outDir, artifact, TIMEOUT, MAX_OUTPUT_KB, snippet, child,
                   childRead, result, sys_stdout, sys_stderr, exitCode, outcome, fsAtStart>>

\* lines 51-57
Echo ==
    /\ pc = "truncated"
    /\ sys_stdout' = IF stdout # <<>> THEN Append(sys_stdout, <<"--- stdout ---", stdout>>)
                                      ELSE sys_stdout
    /\ sys_stderr' = IF stderr # <<>> THEN Append(sys_stderr, <<"--- stderr ---", stderr>>)
                                      ELSE sys_stderr
    /\ pc' = "echoed"
    /\ UNCHANGED <<entries, outDir, artifact, TIMEOUT, MAX_OUTPUT_KB, snippet, child,
                   childRead, result, stdout, stderr, exitCode, outcome, fsAtStart>>

\* line 61: os.makedirs(OUTPUT_DIR, exist_ok=True)
Makedirs ==
    /\ pc = "echoed"
    /\ outDir' = "dir"
    /\ pc' = "dir_ready"
    /\ UNCHANGED <<entries, artifact, TIMEOUT, MAX_OUTPUT_KB, snippet, child, childRead,
                   result, stdout, stderr, sys_stdout, sys_stderr, exitCode, outcome,
                   fsAtStart>>

\* The failure of line 61 is caught and the run reported as if it had succeeded.
MakedirsFails_swallowed ==
    /\ pc = "echoed"
    /\ outDir = "absent"
    /\ sys_stdout' = sys_stdout \o << <<"Exit code:", str(result[1].returncode)>>,
                                      <<"Output saved to:", out_file>> >>
    /\ Exit(result[1].returncode, "PersistenceFailure")
    /\ UNCHANGED <<entries, outDir, artifact, TIMEOUT, MAX_OUTPUT_KB, snippet, child,
                   childRead, result, stdout, stderr, sys_stderr, fsAtStart>>

\* line 61 raises: the directory is not there and cannot be created
MakedirsFails ==
    /\ pc = "echoed"
    /\ outDir = "absent"
    /\ Uncaught("makedirs")
    /\ UNCHANGED <<entries, outDir, artifact, TIMEOUT, MAX_OUTPUT_KB, snippet, child,
                   childRead, result, stdout, stderr, sys_stdout, fsAtStart>>

\* lines 62-66: the artifact is opened and written
WriteArtifact ==
    /\ pc = "dir_ready"
    /\ artifact' = <<open_w(Content) \o Writes(result[1].returncode, stdout, stderr)>>
    /\ pc' = "persisted"
    /\ UNCHANGED <<entries, outDir, TIMEOUT, MAX_OUTPUT_KB, snippet, child, childRead,
                   result, stdout, stderr, sys_stdout, sys_stderr, exitCode, outcome,
                   fsAtStart>>

\* line 62 raises: the artifact cannot be opened for writing
OpenFails ==
    /\ pc = "dir_ready"
    /\ Uncaught("open")
    /\ UNCHANGED <<entries, outDir, artifact, TIMEOUT, MAX_OUTPUT_KB, snippet, child,
                   childRead, result, stdout, stderr, sys_stdout, fsAtStart>>

\* lines 63-66 raise: the artifact was opened, and a write did not go through
WriteFails ==
    /\ pc = "dir_ready"
    /\ LET w == Writes(result[1].returncode, stdout, stderr)
       IN \E k \in 0..(Len(w) - 1) : artifact' = <<open_w(Content) \o SubSeq(w, 1, k)>>
    /\ Uncaught("write")
    /\ UNCHANGED <<entries, outDir, TIMEOUT, MAX_OUTPUT_KB, snippet, child, childRead,
                   result, stdout, stderr, sys_stdout, fsAtStart>>

\* lines 68-70 and 80: the summary, and the child's return code as exit status
Return ==
    /\ pc = "persisted"
    /\ sys_stdout' = sys_stdout \o << <<"Exit code:", str(result[1].returncode)>>,
                                      <<"Output saved to:", out_file>> >>
    /\ Exit(result[1].returncode, "Returned")
    /\ UNCHANGED <<entries, outDir, artifact, TIMEOUT, MAX_OUTPUT_KB, snippet, child,
                   childRead, result, stdout, stderr, sys_stderr, fsAtStart>>

\* Lines 9-10 of a runner started again on the workspace, which whoever
\* populates it may have populated anew; the output subdirectory stays.
ReadEnvironment ==
    /\ pc = "boot"
    /\ entries' \in Workspaces(MainPool)
    /\ TIMEOUT' \in 1..MaxTimeout
    /\ MAX_OUTPUT_KB' \in 1..MaxOutputKB
    /\ pc' = "start"
    /\ UNCHANGED <<outDir, artifact, snippet, child, childRead, result, stdout, stderr,
                   sys_stdout, sys_stderr, exitCode, outcome, fsAtStart>>

\* The process is gone and the runner is started again: nothing of the
\* process stays, the files do.
NextInvocation ==
    /\ pc = "exited"
    /\ pc' = "boot"
    /\ snippet' = <<None, None>>
    /\ child' = <<>>
    /\ childRead' = FALSE
    /\ result' = <<>>
    /\ stdout' = <<>>
    /\ stderr' = <<>>
    /\ sys_stdout' = <<>>
    /\ sys_stderr' = <<>>
    /\ exitCode' = <<>>
    /\ outcome' = "none"
    /\ fsAtStart' = [outDir |-> outDir, artifact |-> artifact]
    /\ UNCHANGED <<entries, outDir, artifact, TIMEOUT, MAX_OUTPUT_KB>>

Next ==
    \/ MainNotFound
    \/ MainFound
    \/ Launch
    \/ ChildReadsStdin
    \/ ChildExits
    \/ TimeoutExpired
    \/ Truncate
    \/ Echo
    \/ Makedirs
    \/ MakedirsFails
    \/ WriteArtifact
    \/ OpenFails
    \/ WriteFails
    \/ Return
    \/ NextInvocation
    \/ ReadEnvironment

Spec == Init /\ [][Next]_vars

(***************************************************************************)
(* The locator on its own: find_snippet over every workspace of at most    *)
(* MaxEntries files and directories named from LocateNames, with or        *)
(* without an output subdirectory left by an earlier run.                  *)
(***************************************************************************)
Stems ==
    {<<>>, <<"a">>, <<"b">>, <<".">>, <<"a", ".", "p", "y">>}

Suffixes ==
    {<<>>, PY, SH, <<".", "P", "Y">>, <<"p", "y">>, <<".">>}

LocateNames == {s \o x : s \in Stems, x \in Suffixes} \ {<<>>}

LocatePool == {File(n) : n \in LocateNames} \cup {Dir(n) : n \in LocateNames}

InitLocate ==
    /\ entries \in Workspaces(LocatePool)
    /\ outDir \in {"absent", "dir"}
    /\ artifact = <<>>
    /\ fsAtStart = [outDir |-> outDir, artifact |-> <<>>]
    /\ TIMEOUT = 1
    /\ MAX_OUTPUT_KB = 1
    /\ ProcessStart

NextLocate ==
    \/ MainNotFound
    \/ MainFound

SpecLocate == InitLocate /\ [][NextLocate]_vars

(***************************************************************************)
(* Claims.                                                                 *)
(***************************************************************************)
\* The smallest name of a non-empty set, in the order of Python's str.
LeastName(S) == CHOOSE m \in S : \A x \in S \ {m} : StrLess(m, x)

\* The extension as the claim words it: the name from its last dot on.
LastDotExt(name) ==
    IF rfind_dot(name) = 0 THEN <<>> ELSE SubSeq(name, rfind_dot(name), Len(name))

\* The extension when a character other than a dot comes before the last dot.
RootedExt(name) ==
    IF \E i \in 1..(rfind_dot(name) - 1) : name[i] # "."
      THEN SubSeq(name, rfind_dot(name), Len(name))
      ELSE <<>>

RegularFiles == {e.name : e \in {f \in Listing : f.kind = "file"}}

LastDotCandidates == {n \in RegularFiles : LastDotExt(n) \in DOMAIN RUNNERS}
RootedCandidates == {n \in RegularFiles : RootedExt(n) \in DOMAIN RUNNERS}

Located == pc \notin {"boot", "start"}

\* C3 as stated: find_snippet returns the lexicographically smallest name
\* among the regular files whose extension, the name from its last dot on, is
\* a key of RUNNERS, and (None, None) exactly when there is no such file.
C3_LastDotExtension ==
    Located =>
        IF LastDotCandidates = {}
          THEN snippet = <<None, None>>
          ELSE snippet = <<join(WORKSPACE, LeastName(LastDotCandidates)),
                           LastDotExt(LeastName(LastDotCandidates))>>

\* C3 amended: find_snippet returns the lexicographically smallest name among
\* the regular files whose extension is a key of RUNNERS, the extension being
\* the name from its last dot on when a character other than a dot precedes
\* that dot and empty otherwise; it returns (None, None) exactly when there is
\* no such file, whatever order the directory is listed in.
C3_SmallestRunnable ==
    Located =>
        IF RootedCandidates = {}
          THEN snippet = <<None, None>>
          ELSE snippet = <<join(WORKSPACE, LeastName(RootedCandidates)),
                           RootedExt(LeastName(RootedCandidates))>>

\* C3 witness: two runnable files beside each other, and the smaller one found.
C3_Witness ==
    /\ Located
    /\ Cardinality(RootedCandidates) >= 2
    /\ snippet[1] = join(WORKSPACE, LeastName(RootedCandidates))

\* The text p is the first len(p) code points of t.
TextPrefix(p, t) == p = Slice(t, TextLen(p))

DigitVal(c) == CHOOSE d \in 0..9 : DigitChar(d) = c

RECURSIVE ParseDigits(_)
ParseDigits(s) ==
    IF Len(s) = 1 THEN DigitVal(s[1])
    ELSE 10 * ParseDigits(SubSeq(s, 1, Len(s) - 1)) + DigitVal(s[Len(s)])

\* int(s)
ParseInt(s) == IF s[1] = "-" THEN 0 - ParseDigits(Tail(s)) ELSE ParseDigits(s)

\* The messages of a channel that carry the label `tag`.
Said(channel, tag) == {i \in DOMAIN channel : channel[i][1] = tag}

\* The record the invocation persists, once its locals are assigned.
ThisRecord == Writes(result[1].returncode, stdout, stderr)

\* The call whose exception ended the invocation, as its traceback names it.
FailedIn ==
    IF Said(sys_stderr, "Traceback") = {} THEN "none" ELSE sys_stderr[Len(sys_stderr)][2]

Cap == MAX_OUTPUT_KB * KiB

\* C1 as stated: when the child ends within the timeout with status K (zero,
\* non-zero, or the status reported for a child killed by a signal) and the
\* run returns, the runner's own exit status is K and the artifact's
\* exit_code field reads K.
C1_ExitCodeForwarded ==
    outcome = "Returned" =>
        /\ exitCode = <<result[1].returncode>>
        /\ artifact # <<>>
        /\ artifact[1][1][1] = "exit_code: "
        /\ ParseInt(artifact[1][1][2]) = result[1].returncode

\* C2: an invocation whose child did not end within the timeout ends TimedOut
\* straight from Running: the error channel carries the one message naming
\* TIMEOUT, the exit status is 124, nothing was truncated, echoed or
\* persisted, and the output directory and the artifact are as they were when
\* the invocation started.
C2_TimeoutShortCircuits ==
    outcome = "TimedOut" =>
        /\ exitCode = <<124>>
        /\ sys_stderr = << <<"Error: execution timed out after", str(TIMEOUT)>> >>
        /\ ParseInt(sys_stderr[1][2]) = TIMEOUT
        /\ result = <<>> /\ stdout = <<>> /\ stderr = <<>>
        /\ Said(sys_stdout, "--- stdout ---") = {}
        /\ Said(sys_stdout, "Output saved to:") = {}
        /\ outDir = fsAtStart.outDir
        /\ artifact = fsAtStart.artifact

\* C2 witness: a timeout in a workspace that holds the artifact of an earlier run.
C2_Witness ==
    /\ outcome = "TimedOut"
    /\ fsAtStart.artifact # <<>>
    /\ artifact = fsAtStart.artifact

\* Whether lines 48-49 have run in this invocation.
Truncated == result # <<>> /\ pc # "completed"

\* What C4 asks of one stream: at most Cap bytes are kept, they are the head
\* of the raw stream, exactly Cap bytes when the raw stream is longer than
\* that, and all of it otherwise.
HeadOfCapBytes(kept, raw) ==
    /\ ByteLen(kept) <= Cap
    /\ TextPrefix(kept, raw)
    /\ ByteLen(raw) > Cap => ByteLen(kept) = Cap
    /\ ByteLen(raw) <= Cap => kept = raw

\* C4 as stated: the captured and persisted stdout of a snippet that writes
\* more than MAX_OUTPUT_KB * 1024 bytes is exactly the first MAX_OUTPUT_KB *
\* 1024 bytes of the stream, never more; stderr likewise, on its own; a
\* stream within the cap is kept whole.
C4_TruncatedToCapBytes ==
    Truncated =>
        /\ HeadOfCapBytes(stdout, result[1].stdout)
        /\ HeadOfCapBytes(stderr, result[1].stderr)
        /\ pc = "persisted" => artifact[1][2] = <<"--- stdout ---", stdout>>

\* C5 as stated: the program ends with exit status 124 if and only if the
\* timeout expired before the child ended.
C5_Only124OnTimeout ==
    pc = "exited" => (exitCode = <<124>> <=> outcome = "TimedOut")

\* C5 amended: the program ends with exit status 124 whenever the timeout
\* expired, and with 1 when nothing runnable was found; an exit status 124
\* otherwise comes only from a child that itself returned 124, forwarded as
\* it is.
C5_TimeoutExits124 ==
    pc = "exited" =>
        /\ outcome = "TimedOut" => exitCode = <<124>>
        /\ outcome = "NoCandidateFile" => exitCode = <<1>>
        /\ exitCode = <<124>> =>
              \/ outcome = "TimedOut"
              \/ outcome = "Returned" /\ result[1].returncode = 124

\* C5 witness: a run that returned, with the exit status 124 of its child.
C5_Witness ==
    /\ outcome = "Returned"
    /\ result[1].returncode = 124
    /\ exitCode = <<124>>

\* C6: a run that persists leaves in the artifact its own record and nothing
\* else: the exit code, the stdout block and, only when stderr is not empty,
\* the stderr block, whatever an earlier run had written there.
C6_Overwrites ==
    (pc = "persisted" \/ outcome = "Returned") =>
        /\ outDir = "dir"
        /\ artifact = <<ThisRecord>>
        /\ Len(artifact[1]) = (IF stderr = <<>> THEN 2 ELSE 3)

\* C6 witness: a second run returned over the longer, different record of a first.
C6_Witness ==
    /\ outcome = "Returned"
    /\ fsAtStart.artifact # <<>>
    /\ fsAtStart.artifact # artifact
    /\ Len(fsAtStart.artifact[1]) = 3
    /\ Len(artifact[1]) = 2

\* C7 as stated: when nothing runnable is found, the error channel carries the
\* failure together with the list of supported extensions, the exit status is
\* 1, no child was launched and the artifact is as it was.
C7_NoSnippetOnErrorChannel ==
    outcome = "NoCandidateFile" =>
        /\ Said(sys_stderr, "No runnable code found in /workspace") # {}
        /\ Said(sys_stderr, "Supported extensions:") # {}
        /\ exitCode = <<1>>
        /\ child = <<>>
        /\ outDir = fsAtStart.outDir
        /\ artifact = fsAtStart.artifact

\* C8 as stated: the standard input of a launched child is not connected to
\* the runner's own standard input, and the child reads nothing from it.
C8_StdinNotConnected ==
    child # <<>> => child[1].stdin # "inherit" /\ ~childRead

\* Whether this invocation has opened the artifact and written to it.
WroteArtifact ==
    \/ pc = "persisted"
    \/ outcome = "Returned"
    \/ outcome = "PersistenceFailure" /\ FailedIn = "write"

\* The echo of lines 51-57 is on the console.
EchoDone ==
    /\ stdout # <<>> => \E i \in DOMAIN sys_stdout : sys_stdout[i] = <<"--- stdout ---", stdout>>
    /\ stderr # <<>> => \E i \in DOMAIN sys_stderr : sys_stderr[i] = <<"--- stderr ---", stderr>>

\* C9: in a completed invocation what is echoed is the truncated text, the
\* artifact is written only after the echo, and the summary and the child's
\* exit code come only after the artifact; a failure to create the output
\* directory or to write the artifact ends the invocation with a traceback
\* and status 1, without the summary, the echo staying on the console.
C9_OrderAndFatalFailure ==
    /\ \A i \in Said(sys_stdout, "--- stdout ---") :
          sys_stdout[i][2] = Slice(result[1].stdout, Cap)
    /\ \A i \in Said(sys_stderr, "--- stderr ---") :
          sys_stderr[i][2] = Slice(result[1].stderr, Cap)
    /\ WroteArtifact => Truncated /\ EchoDone
    /\ Said(sys_stdout, "Output saved to:") # {} =>
          /\ artifact = <<ThisRecord>>
          /\ EchoDone
          /\ outcome = "Returned"
    /\ outcome = "PersistenceFailure" =>
          /\ exitCode = <<1>>
          /\ Said(sys_stderr, "Traceback") # {}
          /\ Said(sys_stdout, "Exit code:") = {}
          /\ Said(sys_stdout, "Output saved to:") = {}
          /\ EchoDone

\* C9 witness: the artifact could not be persisted after output was echoed,
\* for a child that had ended with status 0.
C9_Witness ==
    /\ outcome = "PersistenceFailure"
    /\ result[1].returncode = 0
    /\ stdout # <<>>
    /\ EchoDone
    /\ exitCode = <<1>>

\* C10 as stated: the artifact, when it exists, is the record of the most
\* recent invocation that reached Completed; an invocation that did not
\* reach it leaves the artifact as it was.
C10_RecordOfLatestCompleted ==
    pc = "exited" =>
        IF result # <<>>
          THEN artifact = <<>> \/ artifact = <<ThisRecord>>
          ELSE artifact = fsAtStart.artifact

\* C10 amended: the artifact, when it exists, is the record of the most
\* recent invocation that opened it for writing, whole when its writes went
\* through and a proper head of its record when one failed; an invocation
\* that ends in TimedOut, in no runnable file, or in a failure to create the
\* output directory or to open the artifact leaves it as it was.
C10_RecordOfLatestWriter ==
    /\ pc \in {"boot", "start", "run_snippet", "running", "completed", "truncated",
               "echoed", "dir_ready"} => artifact = fsAtStart.artifact
    /\ pc = "persisted" \/ outcome = "Returned" => artifact = <<ThisRecord>>
    /\ outcome \in {"TimedOut", "NoCandidateFile"} => artifact = fsAtStart.artifact
    /\ outcome = "PersistenceFailure" =>
          IF FailedIn = "write"
            THEN /\ artifact # <<>>
                 /\ Len(artifact[1]) < Len(ThisRecord)
                 /\ artifact[1] = SubSeq(ThisRecord, 1, Len(artifact[1]))
            ELSE artifact = fsAtStart.artifact

\* C10 witness: a completed invocation could not open the artifact, which
\* still holds the different record of an earlier one.
C10_Witness ==
    /\ outcome = "PersistenceFailure"
    /\ FailedIn = "open"
    /\ artifact # <<>>
    /\ artifact = fsAtStart.artifact
    /\ artifact # <<ThisRecord>>

====
